---- MODULE Spec2Model ----
(***************************************************************************)
(* ScrAI actor cognitive-action loop: the ActionManager registry           *)
(* (engine/systems/action_system/action_system.py), the Agno tool wrapper  *)
(* that executes an action and applies its outcome                         *)
(* (engine/actors/basic_runtime_agno_v1.py), the model wrapper and the     *)
(* run_cycle of that actor, and the perceive, decide and act steps of the  *)
(* runtime actor (engine/actors/basic_runtime.py).                         *)
(*                                                                         *)
(* Representation.                                                         *)
(*  - A Python dict is a function whose domain is its key set.             *)
(*  - A Python float emotion value is an integer number of hundredths      *)
(*    (0.15 is 15, 1.0 is One); every delta of the code is a multiple of   *)
(*    0.05, so the arithmetic is exact on this grid.                       *)
(*  - An f-string is the tuple of its literal and interpolated parts.      *)
(*  - A value that may be None or of the wrong type carries a tag.         *)
(*  - An exception is the string of its message; "" is "no exception".     *)
(***************************************************************************)
EXTENDS Integers, Sequences, FiniteSets, TLC

VARIABLES
    state,              \* ActorData.state                (Dict[str, Any])
    emotions,           \* ActorData.cognitive_core.emotions
    short_term_memory,  \* ActorData.cognitive_core.short_term_memory
    action_handlers,    \* ActionManager._action_handlers (name -> handler)
    tools,              \* names of the Agno tools built at actor construction
    runtime_state,      \* basic_runtime.ScrAIActor.state
    message_history,    \* basic_runtime.ScrAIActorAgno.message_history
    perceptions,        \* history: every observation handed to perceive
    last,               \* history: the last call, its inputs and its result
    steps,              \* history: number of calls made so far
    turn,               \* the turn (run_cycle) in progress or just finished
    peer                \* a second actor on the same ActionManager, with history

vars == <<state, emotions, short_term_memory, action_handlers, tools,
          runtime_state, message_history, perceptions, last, steps, turn, peer>>

----------------------------------------------------------------------------
(* Bounds of the model *)

\* Calls explored per behaviour of Spec.
MaxSteps == 2
\* SpecMemory stops calling handlers once short_term_memory is this long.
MaxMemory == 12
\* Perceptions explored per behaviour of SpecMemory.
MaxMemPerceptions == 1
\* Perceptions explored per behaviour of SpecPerceive.
MaxPerceptions == 11
\* Turns explored per behaviour of SpecTurn and SpecCycle.
MaxTurns == 2
\* Calls of the model the Agno agent may make in one run (one per tool
\* call it hands back to the model, and the first).
MaxInvocations == 1
\* Tool calls explored per behaviour of SpecActors.
MaxActorCalls == 2

----------------------------------------------------------------------------
(* Values *)

\* The float 1.0, in hundredths.
One == 100

\* The capacity the specification gives the short-term memory.
Capacity == 10

EmptyDict == [k \in {} |-> ""]

Max(a, b) == IF a >= b THEN a ELSE b
Min(a, b) == IF a <= b THEN a ELSE b

\* d[key] = value on a Python dict.
DictSet(d, key, value) ==
    [k \in DOMAIN d \cup {key} |-> IF k = key THEN value ELSE d[k]]

\* d.get(key, default) on a Python dict.
DictGet(d, key, default) == IF key \in DOMAIN d THEN d[key] ELSE default

\* The elements of a tuple.
Parts(t) == {t[i] : i \in 1..Len(t)}

\* seq[:n]
Take(seq, n) == SubSeq(seq, 1, Min(n, Len(seq)))

\* The last n elements of seq (all of it when it is shorter).
LastN(seq, n) == SubSeq(seq, Max(1, Len(seq) - n + 1), Len(seq))

----------------------------------------------------------------------------
(* Action requests: the `action` dict handed to ActionManager *)

\* The value under a key of the request: absent, None, or of some type.
StrName(s) == [tag |-> "str", s |-> s]
MissingName == [tag |-> "missing", s |-> ""]
NoneName == [tag |-> "none", s |-> ""]

DictParams(d) == [tag |-> "dict", d |-> d, items |-> {}]
MissingParams == [tag |-> "missing", d |-> EmptyDict, items |-> {}]
NoneParams == [tag |-> "none", d |-> EmptyDict, items |-> {}]
ListParams(S) == [tag |-> "list", d |-> EmptyDict, items |-> S]

Request(name, parameters) == [action_name |-> name, parameters |-> parameters]

\* str.lower() on the spellings the model uses: the mixed-case ones are listed,
\* every other string of the model is already lower case.
Lower(s) ==
    CASE s = "PRAY" -> "pray"
      [] s = "Pray" -> "pray"
      [] s = "Speak" -> "speak"
      [] s = "Fly" -> "fly"
      [] s = "Show_Emotion_Joy" -> "show_emotion_joy"
      [] OTHER -> s

----------------------------------------------------------------------------
(* ActionOutcome *)

\* Python's None, where a dict is expected.
NoneValue == [is_none |-> TRUE]

\* The dataclass constructor followed by __post_init__: a state_changes of None
\* becomes {} and events_generated, which no caller passes, becomes [].
ActionOutcome(result, message, state_changes) ==
    [result |-> result,
     message |-> message,
     state_changes |-> IF state_changes = NoneValue THEN EmptyDict ELSE state_changes,
     events_generated |-> <<>>]

\* No outcome was returned (the call raised, or no call was made yet).
NoOutcome ==
    [result |-> "none", message |-> <<>>, state_changes |-> EmptyDict,
     events_generated |-> <<>>]

ActionResults == {"SUCCESS", "FAILED", "BLOCKED", "INVALID"}

----------------------------------------------------------------------------
(* The registry *)

ShowEmotionActions ==
    {"show_emotion_fear", "show_emotion_awe", "show_emotion_determination",
     "show_emotion_sadness", "show_emotion_joy", "show_emotion_anger"}

DefaultActions ==
    {"pray", "compose_prayer", "record_vision", "bless", "contemplate",
     "speak", "whisper", "shout", "write",
     "observe_surroundings", "listen_carefully", "examine", "search",
     "move_to", "stand", "sit", "kneel", "lie_down",
     "use_item", "take", "give", "touch",
     "think", "decide", "plan", "remember",
     "wait", "rest"} \cup ShowEmotionActions

\* ActionManager._register_default_actions: each name's handler method.
DefaultHandler(name) ==
    IF name \in ShowEmotionActions THEN "_handle_show_emotion"
    ELSE "_handle_" \o name

\* Handlers a caller registers with register_action: one that succeeds
\* and one that raises Exception("custom failure").
CustomHandlers == {"custom_ok", "custom_raise"}

\* The names register_action is called with.
RegisterNames == {"fly", "Fly"}

----------------------------------------------------------------------------
(* Handlers.  A handler call returns                                        *)
(*   exc               the message of the exception it raised, or ""        *)
(*   outcome           the ActionOutcome it returned (NoOutcome if raised)  *)
(*   short_term_memory the actor's memory list after the call               *)

Returned(outcome, memory) ==
    [exc |-> "", outcome |-> outcome, short_term_memory |-> memory]

Raised(exc, memory) ==
    [exc |-> exc, outcome |-> NoOutcome, short_term_memory |-> memory]

\* params.get(...) on a value that is no dict raises AttributeError before
\* the handler has done anything.
NoGetError(params) ==
    IF params.tag = "none" THEN "'NoneType' object has no attribute 'get'"
    ELSE "'list' object has no attribute 'get'"

\* "chapel" in str(current_location).lower(), on the locations of the model.
MentionsChapel(location) == location \in {"private_chapel", "Sistine Chapel"}

\* The emotion named by the original_action parameter: the text left when
\* "show_emotion_" is removed, or "neutral" when the text does not contain it.
EmotionType(action_name) ==
    CASE action_name = "show_emotion_fear" -> "fear"
      [] action_name = "show_emotion_awe" -> "awe"
      [] action_name = "show_emotion_determination" -> "determination"
      [] action_name = "show_emotion_sadness" -> "sadness"
      [] action_name = "show_emotion_joy" -> "joy"
      [] action_name = "show_emotion_anger" -> "anger"
      [] OTHER -> "neutral"

\* The actor record the handlers read: ActorData, as far as they use it.
ActorData(name, st, em, memory) ==
    [name |-> name, state |-> st, emotions |-> em, short_term_memory |-> memory]

\* Fear reduction of a prayer, by intensity.
PrayReduction(intensity) ==
    IF intensity = "low" THEN 10 ELSE IF intensity = "medium" THEN 20 ELSE 30

\* Determination increase of a prayer, by intensity.
PrayIncrease(intensity) ==
    IF intensity = "low" THEN 10 ELSE IF intensity = "medium" THEN 15 ELSE 20

\* max(0, emotions["fear"] - reduction)
PrayFearNoClamp(fear, intensity) == fear - PrayReduction(intensity)
PrayFearWrongTier(fear, intensity) ==
    Max(0, fear - (IF intensity = "low" THEN 10 ELSE 30))
PrayFear(fear, intensity) == Max(0, fear - PrayReduction(intensity))

\* min(1.0, emotions["determination"] + increase)
PrayDetermination(determination, intensity) ==
    Min(One, determination + PrayIncrease(intensity))

_handle_pray(actor, params) ==
    IF params.tag # "dict" THEN Raised(NoGetError(params), actor.short_term_memory)
    ELSE
    LET intensity == DictGet(params.d, "intensity", "medium")
        duration == DictGet(params.d, "duration", "short")
        current_spiritual == DictGet(actor.state, "spiritual_state", "neutral")
        spiritual == IF current_spiritual = "in_vision"
                     THEN "praying_during_vision" ELSE "praying"
        fear_change ==
            IF "fear" \in DOMAIN actor.emotions
            THEN "fear" :> PrayFear(actor.emotions["fear"], intensity)
            ELSE EmptyDict
        determination_change ==
            IF "determination" \in DOMAIN actor.emotions
            THEN "determination" :>
                     PrayDetermination(actor.emotions["determination"], intensity)
            ELSE EmptyDict
        emotion_changes == fear_change @@ determination_change
        state_changes ==
            ("spiritual_state" :> spiritual) @@ ("emotion_changes" :> emotion_changes)
        memory_entry ==
            <<"Prayed with ", intensity, " intensity for ", duration, " duration">>
    IN  Returned(ActionOutcome("SUCCESS",
                               <<actor.name, " prays with ", intensity, " intensity">>,
                               state_changes),
                 Append(actor.short_term_memory, memory_entry))

_handle_compose_prayer(actor, params) ==
    IF params.tag # "dict" THEN Raised(NoGetError(params), actor.short_term_memory)
    ELSE
    LET topic == DictGet(params.d, "topic", "general guidance")
        style == DictGet(params.d, "style", "formal")
        memory_entry == <<"Composed a ", style, " prayer about ", topic>>
    IN  Returned(ActionOutcome("SUCCESS",
                               <<actor.name, " composes a ", style, " prayer about ", topic>>,
                               "last_prayer_topic" :> topic),
                 Append(actor.short_term_memory, memory_entry))

\* _handle_record_vision, had it declared the new detail alone.
_handle_record_vision_replaces(actor, params) ==
    IF params.tag # "dict" THEN Raised(NoGetError(params), actor.short_term_memory)
    ELSE
    LET detail == DictGet(params.d, "detail", "general impression")
        method == DictGet(params.d, "method", "mental note")
        memory_entry == <<"Recorded vision detail: ", detail, " (via ", method, ")">>
    IN  Returned(ActionOutcome("SUCCESS",
                               <<actor.name, " records vision detail: ", detail>>,
                               "vision_records" :> <<detail>>),
                 Append(actor.short_term_memory, memory_entry))

_handle_record_vision(actor, params) ==
    IF params.tag # "dict" THEN Raised(NoGetError(params), actor.short_term_memory)
    ELSE
    LET detail == DictGet(params.d, "detail", "general impression")
        method == DictGet(params.d, "method", "mental note")
        memory_entry == <<"Recorded vision detail: ", detail, " (via ", method, ")">>
        state_changes ==
            IF "vision_records" \notin DOMAIN actor.state
            THEN "vision_records" :> <<detail>>
            ELSE "vision_records" :> (actor.state["vision_records"] \o <<detail>>)
    IN  Returned(ActionOutcome("SUCCESS",
                               <<actor.name, " records vision detail: ", detail>>,
                               state_changes),
                 Append(actor.short_term_memory, memory_entry))

_handle_speak(actor, params) ==
    IF params.tag # "dict" THEN Raised(NoGetError(params), actor.short_term_memory)
    ELSE
    LET message == DictGet(params.d, "message", "...")
        tone == DictGet(params.d, "tone", "normal")
        memory_entry == <<"Spoke with ", tone, " tone: '", message, "'">>
    IN  Returned(ActionOutcome("SUCCESS",
                               <<actor.name, " speaks (", tone, "): '", message, "'">>,
                               "last_spoken" :> message),
                 Append(actor.short_term_memory, memory_entry))

_handle_observe_surroundings(actor, params) ==
    IF params.tag # "dict" THEN Raised(NoGetError(params), actor.short_term_memory)
    ELSE
    LET focus == DictGet(params.d, "focus", "general")
        detail_level == DictGet(params.d, "detail_level", "normal")
        current_location == DictGet(actor.state, "current_location_id", "unknown")
        seen == IF MentionsChapel(current_location)
                THEN <<"Dim candlelight flickers on stone walls",
                       "Religious iconography adorns the walls",
                       "A sense of ancient sanctity pervades the space",
                       "Shadows dance in the corners">>
                ELSE <<"The immediate surroundings are unclear",
                       "The environment seems spiritually charged">>
        observations ==
            IF focus # "general"
            THEN Append(seen, "Focusing particularly on: " \o focus)
            ELSE seen
        memory_entry == <<"Observed surroundings with ", detail_level, " attention">>
        \* append(memory_entry), then extend(observations[:2])
        memory == Append(actor.short_term_memory, memory_entry)
                      \o [i \in 1..Len(Take(observations, 2)) |-> <<observations[i]>>]
    IN  Returned(ActionOutcome("SUCCESS",
                               <<actor.name, " observes surroundings. Sees: ">>
                                   \o Take(observations, 2),
                               "recent_observations" :> observations),
                 memory)

\* ShownEmotion without the min(1.0, ...).
ShownEmotionNoClamp(em, emotion_type, intensity) ==
    IF emotion_type \in DOMAIN em
    THEN em[emotion_type] + 10
    ELSE IF intensity = "low" THEN 30 ELSE IF intensity = "medium" THEN 50 ELSE 80

\* min(1.0, emotions[emotion_type] + 0.1), or the value of the intensity
\* when the actor does not have the emotion yet.
ShownEmotion(em, emotion_type, intensity) ==
    IF emotion_type \in DOMAIN em
    THEN Min(One, em[emotion_type] + 10)
    ELSE IF intensity = "low" THEN 30 ELSE IF intensity = "medium" THEN 50 ELSE 80

_handle_show_emotion(actor, params) ==
    IF params.tag # "dict" THEN Raised(NoGetError(params), actor.short_term_memory)
    ELSE
    LET action_name == DictGet(params.d, "original_action", "show_emotion")
        emotion_type == EmotionType(action_name)
        intensity == DictGet(params.d, "intensity", "medium")
        emotion_changes ==
            emotion_type :> ShownEmotion(actor.emotions, emotion_type, intensity)
        memory_entry == <<"Expressed ", emotion_type, " with ", intensity, " intensity">>
    IN  Returned(ActionOutcome("SUCCESS",
                               <<actor.name, " shows ", emotion_type, " (", intensity,
                                 " intensity)">>,
                               "emotion_changes" :> emotion_changes),
                 Append(actor.short_term_memory, memory_entry))

\* _handle_think, had it assigned the memory list instead of appending.
_handle_think_overwrites(actor, params) ==
    IF params.tag # "dict" THEN Raised(NoGetError(params), actor.short_term_memory)
    ELSE
    LET topic == DictGet(params.d, "topic", "current situation")
        depth == DictGet(params.d, "depth", "surface")
        memory_entry == <<"Contemplated ", topic, " with ", depth, " depth">>
    IN  Returned(ActionOutcome("SUCCESS",
                               <<actor.name, " thinks deeply about ", topic>>,
                               "last_thought_topic" :> topic),
                 <<memory_entry>>)

_handle_think(actor, params) ==
    IF params.tag # "dict" THEN Raised(NoGetError(params), actor.short_term_memory)
    ELSE
    LET topic == DictGet(params.d, "topic", "current situation")
        depth == DictGet(params.d, "depth", "surface")
        memory_entry == <<"Contemplated ", topic, " with ", depth, " depth">>
    IN  Returned(ActionOutcome("SUCCESS",
                               <<actor.name, " thinks deeply about ", topic>>,
                               "last_thought_topic" :> topic),
                 Append(actor.short_term_memory, memory_entry))

\* _handle_wait, had it declared what it waited for as a state change.
_handle_wait_declares(actor, params) ==
    IF params.tag # "dict" THEN Raised(NoGetError(params), actor.short_term_memory)
    ELSE
    LET duration == DictGet(params.d, "duration", "moment")
    IN  Returned(ActionOutcome("SUCCESS", <<actor.name, " waits for a ", duration>>,
                               "last_wait" :> duration),
                 actor.short_term_memory)

_handle_wait(actor, params) ==
    IF params.tag # "dict" THEN Raised(NoGetError(params), actor.short_term_memory)
    ELSE
    LET duration == DictGet(params.d, "duration", "moment")
        reason == DictGet(params.d, "reason", "to gather thoughts")
        memory_entry == <<"Waited for a ", duration, " ", reason>>
    IN  Returned(ActionOutcome("SUCCESS",
                               <<actor.name, " waits for a ", duration, " ", reason>>,
                               EmptyDict),
                 Append(actor.short_term_memory, memory_entry))

\* The handlers below return SUCCESS with a message and do nothing else:
\* they pass no state_changes (so __post_init__ makes it {}) or a fixed one,
\* and they leave the memory list alone.

\* One that reads a single parameter: f"{actor.name}{before}{value}{after}".
ReadsOneParameter(actor, params, key, default, before, after) ==
    IF params.tag # "dict" THEN Raised(NoGetError(params), actor.short_term_memory)
    ELSE Returned(ActionOutcome("SUCCESS",
                                <<actor.name, before, DictGet(params.d, key, default), after>>,
                                NoneValue),
                  actor.short_term_memory)

\* One that reads no parameter at all, and so accepts a params of any type.
ReadsNoParameter(actor, text, state_changes) ==
    Returned(ActionOutcome("SUCCESS", <<actor.name, text>>, state_changes),
             actor.short_term_memory)

_handle_bless(actor, params) ==
    ReadsOneParameter(actor, params, "target", "general", " offers a blessing to ", "")

_handle_contemplate(actor, params) ==
    ReadsOneParameter(actor, params, "subject", "divine mysteries", " contemplates ", "")

_handle_whisper(actor, params) ==
    ReadsOneParameter(actor, params, "message", "...", " whispers: '", "'")

_handle_shout(actor, params) ==
    ReadsOneParameter(actor, params, "message", "...", " shouts: '", "'")

_handle_write(actor, params) ==
    ReadsOneParameter(actor, params, "content", "notes", " writes: ", "")

_handle_examine(actor, params) ==
    ReadsOneParameter(actor, params, "target", "unknown", " examines ", "")

_handle_search(actor, params) ==
    ReadsOneParameter(actor, params, "target", "something", " searches for ", "")

_handle_move_to(actor, params) ==
    ReadsOneParameter(actor, params, "location", "unknown", " moves to ", "")

_handle_use_item(actor, params) ==
    ReadsOneParameter(actor, params, "target", "unknown item", " uses ", "")

_handle_take(actor, params) ==
    ReadsOneParameter(actor, params, "target", "unknown item", " takes ", "")

_handle_touch(actor, params) ==
    ReadsOneParameter(actor, params, "target", "unknown", " touches ", "")

_handle_decide(actor, params) ==
    ReadsOneParameter(actor, params, "decision", "course of action", " decides on ", "")

_handle_plan(actor, params) ==
    ReadsOneParameter(actor, params, "plan", "future actions", " plans ", "")

_handle_remember(actor, params) ==
    ReadsOneParameter(actor, params, "memory", "past events", " remembers ", "")

_handle_give(actor, params) ==
    IF params.tag # "dict" THEN Raised(NoGetError(params), actor.short_term_memory)
    ELSE Returned(ActionOutcome("SUCCESS",
                                <<actor.name, " gives ",
                                  DictGet(params.d, "item", "something"), " to ",
                                  DictGet(params.d, "target", "someone")>>,
                                NoneValue),
                  actor.short_term_memory)

_handle_listen_carefully(actor, params) ==
    ReadsNoParameter(actor, " listens intently", NoneValue)

_handle_stand(actor, params) ==
    ReadsNoParameter(actor, " stands up", "posture" :> "standing")

_handle_sit(actor, params) ==
    ReadsNoParameter(actor, " sits down", "posture" :> "sitting")

_handle_kneel(actor, params) ==
    ReadsNoParameter(actor, " kneels", "posture" :> "kneeling")

_handle_lie_down(actor, params) ==
    ReadsNoParameter(actor, " lies down", "posture" :> "lying")

_handle_rest(actor, params) ==
    ReadsNoParameter(actor, " rests", "energy" :> "restored")

\* A registered handler that succeeds, declaring no change.
custom_ok(actor, params) ==
    Returned(ActionOutcome("SUCCESS", <<actor.name, " performs a custom action">>,
                           NoneValue),
             actor.short_term_memory)

\* A registered handler that raises Exception("custom failure").
custom_raise(actor, params) == Raised("custom failure", actor.short_term_memory)

\* handler(actor, parameters)
CallHandler(handler, actor, params) ==
    CASE handler = "_handle_pray" -> _handle_pray(actor, params)
      [] handler = "_handle_compose_prayer" -> _handle_compose_prayer(actor, params)
      [] handler = "_handle_record_vision" -> _handle_record_vision(actor, params)
      [] handler = "_handle_speak" -> _handle_speak(actor, params)
      [] handler = "_handle_observe_surroundings" ->
             _handle_observe_surroundings(actor, params)
      [] handler = "_handle_show_emotion" -> _handle_show_emotion(actor, params)
      [] handler = "_handle_think" -> _handle_think(actor, params)
      [] handler = "_handle_wait" -> _handle_wait(actor, params)
      [] handler = "_handle_give" -> _handle_give(actor, params)
      [] handler = "_handle_listen_carefully" -> _handle_listen_carefully(actor, params)
      [] handler = "_handle_stand" -> _handle_stand(actor, params)
      [] handler = "_handle_sit" -> _handle_sit(actor, params)
      [] handler = "_handle_kneel" -> _handle_kneel(actor, params)
      [] handler = "_handle_lie_down" -> _handle_lie_down(actor, params)
      [] handler = "_handle_rest" -> _handle_rest(actor, params)
      [] handler = "custom_ok" -> custom_ok(actor, params)
      [] handler = "custom_raise" -> custom_raise(actor, params)
      [] handler = "_handle_bless" -> _handle_bless(actor, params)
      [] handler = "_handle_contemplate" -> _handle_contemplate(actor, params)
      [] handler = "_handle_whisper" -> _handle_whisper(actor, params)
      [] handler = "_handle_shout" -> _handle_shout(actor, params)
      [] handler = "_handle_write" -> _handle_write(actor, params)
      [] handler = "_handle_examine" -> _handle_examine(actor, params)
      [] handler = "_handle_search" -> _handle_search(actor, params)
      [] handler = "_handle_move_to" -> _handle_move_to(actor, params)
      [] handler = "_handle_use_item" -> _handle_use_item(actor, params)
      [] handler = "_handle_take" -> _handle_take(actor, params)
      [] handler = "_handle_touch" -> _handle_touch(actor, params)
      [] handler = "_handle_decide" -> _handle_decide(actor, params)
      [] handler = "_handle_plan" -> _handle_plan(actor, params)
      [] handler = "_handle_remember" -> _handle_remember(actor, params)

----------------------------------------------------------------------------
(* ActionManager.validate_action and execute_action *)

\* action.get("action_name", "")
GetActionName(action) ==
    IF action.action_name.tag = "missing" THEN StrName("") ELSE action.action_name

\* action.get("parameters", {})
GetParameters(action) ==
    IF action.parameters.tag = "missing" THEN DictParams(EmptyDict)
    ELSE action.parameters

\* None.lower()
NoLowerError == "'NoneType' object has no attribute 'lower'"

\* `key in parameters`: a key test on a dict, a membership test on a list,
\* a TypeError on None.
Contains(parameters, key) ==
    CASE parameters.tag = "dict" -> [exc |-> "", value |-> key \in DOMAIN parameters.d]
      [] parameters.tag = "list" -> [exc |-> "", value |-> key \in parameters.items]
      [] OTHER -> [exc |-> "argument of type 'NoneType' is not iterable",
                   value |-> FALSE]

\* The action names of each parameter requirement.
LocationActions == {"move_to"}
MessageActionsShort == {"speak", "whisper"}
MessageActions == {"speak", "whisper", "shout"}
TargetActions == {"examine", "use_item", "take", "give", "touch"}

\* `action_name in names and key not in parameters`, read as "the requirement
\* is met": `and` does not evaluate the key test for another action's name.
Requirement(action_name, names, key, parameters) ==
    IF action_name \notin names THEN [exc |-> "", value |-> TRUE]
    ELSE Contains(parameters, key)

\* action_name not in self._action_handlers, negated.
KnownActionAlways(action_name, handlers) == TRUE
KnownAction(action_name, handlers) == action_name \in DOMAIN handlers

\* Returns exc (the exception raised, or "") and value (the boolean returned).
validate_action(action, handlers) ==
    LET name == GetActionName(action) IN
    IF name.tag # "str" THEN [exc |-> NoLowerError, value |-> FALSE]
    ELSE
    LET action_name == Lower(name.s)
        parameters == GetParameters(action)
        location == Requirement(action_name, LocationActions, "location", parameters)
        message == Requirement(action_name, MessageActions, "message", parameters)
        target == Requirement(action_name, TargetActions, "target", parameters)
    IN  IF ~KnownAction(action_name, handlers) THEN [exc |-> "", value |-> FALSE]
        ELSE IF location.exc # "" \/ ~location.value THEN location
        ELSE IF message.exc # "" \/ ~message.value THEN message
        ELSE IF target.exc # "" \/ ~target.value THEN target
        ELSE [exc |-> "", value |-> TRUE]

\* What a call of execute_action did:
\*   exc          the exception that escaped the call, or ""
\*   outcome      the ActionOutcome returned (NoOutcome when exc # "")
\*   short_term_memory  the actor's memory list after the call
\*   invoked      the handler that was called, or "none"
\*   handler_exc  the exception the handler raised, or ""
Escaped(exc, actor) ==
    [exc |-> exc, outcome |-> NoOutcome,
     short_term_memory |-> actor.short_term_memory,
     invoked |-> "none", handler_exc |-> ""]

InvalidOutcome(action_name) ==
    ActionOutcome("INVALID",
                  <<"Action '", action_name, "' is invalid or missing required parameters">>,
                  NoneValue)

FailedOutcome(exc) ==
    ActionOutcome("FAILED", <<"Action failed due to error: ", exc>>, NoneValue)

\* The try block: look the handler up, call it, turn an exception into FAILED.
DispatchNoCatch(action_name, actor, parameters, handlers) ==
    IF action_name \notin DOMAIN handlers
    THEN Escaped("KeyError", actor)
    ELSE LET handler == handlers[action_name]
             r == CallHandler(handler, actor, parameters)
         IN  [exc |-> r.exc, outcome |-> r.outcome,
              short_term_memory |-> r.short_term_memory,
              invoked |-> handler, handler_exc |-> r.exc]
Dispatch(action_name, actor, parameters, handlers) ==
    IF action_name \notin DOMAIN handlers
    THEN [exc |-> "", outcome |-> FailedOutcome("KeyError"),
          short_term_memory |-> actor.short_term_memory,
          invoked |-> "none", handler_exc |-> ""]
    ELSE LET handler == handlers[action_name]
             r == CallHandler(handler, actor, parameters)
         IN  [exc |-> "",
              outcome |-> IF r.exc # "" THEN FailedOutcome(r.exc) ELSE r.outcome,
              short_term_memory |-> r.short_term_memory,
              invoked |-> handler, handler_exc |-> r.exc]

execute_action_handler_first(action, actor, handlers) ==
    LET name == GetActionName(action) IN
    IF name.tag # "str" THEN Escaped(NoLowerError, actor)
    ELSE
    LET action_name == Lower(name.s)
        parameters == GetParameters(action)
        done == Dispatch(action_name, actor, parameters, handlers)
        valid == validate_action(action, handlers)
    IN  IF valid.exc # "" THEN Escaped(valid.exc, actor)
        ELSE IF ~valid.value
        THEN [done EXCEPT !.outcome = InvalidOutcome(action_name)]
        ELSE done
execute_action(action, actor, handlers) ==
    LET name == GetActionName(action) IN
    IF name.tag # "str" THEN Escaped(NoLowerError, actor)
    ELSE
    LET action_name == Lower(name.s)
        parameters == GetParameters(action)
        valid == validate_action(action, handlers)
    IN  IF valid.exc # "" THEN Escaped(valid.exc, actor)
        ELSE IF ~valid.value
        THEN [exc |-> "", outcome |-> InvalidOutcome(action_name),
              short_term_memory |-> actor.short_term_memory,
              invoked |-> "none", handler_exc |-> ""]
        ELSE Dispatch(action_name, actor, parameters, handlers)

----------------------------------------------------------------------------
(* The Agno tool of one action: execute the action, apply its outcome *)

\* `parameters or {}`: None, {} and [] are falsy.
OrEmptyDict(parameters) ==
    IF \/ parameters.tag \in {"none", "missing"}
       \/ parameters.tag = "dict" /\ DOMAIN parameters.d = {}
       \/ parameters.tag = "list" /\ parameters.items = {}
    THEN DictParams(EmptyDict)
    ELSE parameters

\* for emotion, new_value in value.items(): emotions[emotion] = new_value
ApplyEmotionChanges(em, value) ==
    [e \in DOMAIN em \cup DOMAIN value |->
        IF e \in DOMAIN value THEN value[e] ELSE em[e]]

\* The loop over state_changes, for the state map: every key but
\* "emotion_changes" is assigned.
ApplyStateChangesEveryKey(st, state_changes) ==
    [k \in DOMAIN st \cup DOMAIN state_changes |->
        IF k \in DOMAIN state_changes THEN state_changes[k] ELSE st[k]]
ApplyStateChanges(st, state_changes) ==
    LET keys == DOMAIN state_changes \ {"emotion_changes"}
    IN  [k \in DOMAIN st \cup keys |-> IF k \in keys THEN state_changes[k] ELSE st[k]]

\* The loop over state_changes, for the emotions map.
AppliedEmotions(em, state_changes) ==
    IF "emotion_changes" \in DOMAIN state_changes
    THEN ApplyEmotionChanges(em, state_changes["emotion_changes"])
    ELSE em

----------------------------------------------------------------------------
(* The state machine *)

ActorName == "Pope Leo XIII"

\* The actor as the handlers see it now.
Actor == ActorData(ActorName, state, emotions, short_term_memory)

\* The actor state a call started from.
Snapshot ==
    [state |-> state, emotions |-> emotions, short_term_memory |-> short_term_memory]

NoRequest == Request(MissingName, MissingParams)

\* The record of a call.
Call(op, request, validated, r) ==
    [op |-> op, request |-> request, validated |-> validated,
     invoked |-> r.invoked, handler_exc |-> r.handler_exc, exc |-> r.exc,
     outcome |-> r.outcome, pre |-> Snapshot]

\* What validate_action answered: "True", "False", or "raise".
Validated(action, handlers) ==
    LET v == validate_action(action, handlers)
    IN  IF v.exc # "" THEN "raise" ELSE IF v.value THEN "True" ELSE "False"

\* The actors a behaviour may start with: the one of the Pope Leo XIII
\* scenario, the one of the Agno demo, one with emotions near both ends of
\* the scale and a vision already recorded, and ActorData's defaults.
InitialActors ==
    << [state |-> [physical_condition |-> "kneeling", spiritual_state |-> "in_vision"],
        emotions |-> [awe |-> 80, fear |-> 60, determination |-> 50, sadness |-> 40]],
       [state |-> [spiritual_state |-> "in_agno_vision_v1", actor_state |-> "contemplating"],
        emotions |-> [awe |-> 96, determination |-> 70]],
       [state |-> [current_location_id |-> "private_chapel",
                   vision_records |-> <<"first light">>],
        emotions |-> [fear |-> 10, determination |-> 95, joy |-> 100]],
       [state |-> EmptyDict, emotions |-> EmptyDict] >>

\* No value where a str is expected (None).
NoneContent == [tag |-> "none"]

\* What a turn returns before it has returned.
NoResult == [details |-> NoneValue, message |-> NoneContent]

\* No turn has started yet.
NoTurn ==
    [pc |-> "idle", runs |-> 0, perception |-> "", pre |-> Snapshot,
     backend_calls |-> 0, backend_failed |-> FALSE, malformed |-> FALSE,
     executions |-> 0, phases |-> <<>>, content |-> NoneContent,
     tool_calls |-> <<>>, result |-> NoResult, exc |-> "", in_flight |-> 0,
     messages |-> <<>>, prompts |-> <<>>, cancelled |-> FALSE]

\* A caller that does not wait for the turn it started.
CallerReadyAlways(t) == TRUE

\* The callers of run_cycle call it in sequence: the next call is made when
\* the previous one has returned (or raised).
CallerReady(t) == t.pc \in {"idle", "done"}

\* The second actor: its own ActorData, built by its own constructor call.
SecondActor ==
    [state |-> [spiritual_state |-> "at_prayer"],
     emotions |-> [fear |-> 25, determination |-> 85],
     short_term_memory |-> <<>>]

Init ==
    /\ \E i \in 1..Len(InitialActors) :
          /\ state = InitialActors[i].state
          /\ emotions = InitialActors[i].emotions
    /\ short_term_memory = <<>>
    /\ action_handlers = [name \in DefaultActions |-> DefaultHandler(name)]
    /\ tools = DefaultActions
    /\ runtime_state = EmptyDict
    /\ message_history = <<>>
    /\ perceptions = <<>>
    /\ last = Call("init", NoRequest, "n/a", Escaped("", Actor))
    /\ steps = 0
    /\ turn = NoTurn
    /\ peer = [data |-> SecondActor,
               alone |-> [A |-> Snapshot, B |-> SecondActor],
               by |-> "none", calls |-> 0]

\* ActionManager.register_action(action_name, handler)
RegisterAction(action_name, handler) ==
    /\ action_handlers' = DictSet(action_handlers, action_name, handler)
    /\ last' = Call("register_action", Request(StrName(action_name), MissingParams),
                    "n/a", Escaped("", Actor))
    /\ steps' = steps + 1
    /\ UNCHANGED <<state, emotions, short_term_memory, tools, runtime_state,
                   message_history, perceptions, turn, peer>>

\* ActionManager.validate_action(action, actor)
ValidateAction(action) ==
    /\ last' = Call("validate_action", action, Validated(action, action_handlers),
                    [Escaped("", Actor) EXCEPT
                        !.exc = validate_action(action, action_handlers).exc])
    /\ steps' = steps + 1
    /\ UNCHANGED <<state, emotions, short_term_memory, action_handlers, tools,
                   runtime_state, message_history, perceptions, turn, peer>>

\* ActionManager.execute_action(action, actor), called directly.
ExecuteAction(action) ==
    LET r == execute_action(action, Actor, action_handlers) IN
    /\ short_term_memory' = r.short_term_memory
    /\ last' = Call("execute_action", action,
                    IF GetActionName(action).tag = "str"
                    THEN Validated(action, action_handlers) ELSE "n/a", r)
    /\ steps' = steps + 1
    /\ UNCHANGED <<state, emotions, action_handlers, tools, runtime_state,
                   message_history, perceptions, turn, peer>>

\* agno_action_tool(parameters) of the tool built for action_name: what the
\* call does to the actor and to the registry's actor.
ToolCall(action_name, parameters) ==
    LET action_dict == Request(StrName(action_name), OrEmptyDict(parameters))
        r == execute_action(action_dict, Actor, action_handlers)
    IN  /\ action_name \in tools
        /\ short_term_memory' = r.short_term_memory
        /\ IF r.exc = "" /\ DOMAIN r.outcome.state_changes # {}
           THEN /\ state' = ApplyStateChanges(state, r.outcome.state_changes)
                /\ emotions' = AppliedEmotions(emotions, r.outcome.state_changes)
           ELSE UNCHANGED <<state, emotions>>
        /\ last' = Call("agno_action_tool", action_dict,
                        Validated(action_dict, action_handlers), r)
        /\ steps' = steps + 1
        /\ UNCHANGED <<action_handlers, tools, runtime_state, message_history,
                       perceptions>>

\* agno_action_tool(parameters), called on its own.
AgnoActionTool(action_name, parameters) ==
    ToolCall(action_name, parameters) /\ UNCHANGED <<turn, peer>>

\* basic_runtime.ScrAIActor.perceive(observation)
BasePerceive(rt_state, observation) == DictSet(rt_state, "last_observation", observation)

\* basic_runtime.ScrAIActorAgno.add_message("user", content)
AddUserMessage(history, content) ==
    Append(history, [role |-> "user", content |-> content])

\* basic_runtime.ScrAIActorAgno.perceive(observation): what the call does to
\* the runtime actor.
PerceiveCall(observation) ==
    /\ runtime_state' = BasePerceive(runtime_state, observation)
    /\ message_history' =
           AddUserMessage(message_history, <<"Current observation: ", observation>>)
    /\ perceptions' = Append(perceptions, observation)
    /\ last' = Call("perceive", NoRequest, "n/a", Escaped("", Actor))
    /\ steps' = steps + 1
    /\ UNCHANGED <<state, emotions, short_term_memory, action_handlers, tools>>

\* basic_runtime.ScrAIActorAgno.perceive(observation), called on its own.
Perceive(observation) ==
    PerceiveCall(observation) /\ UNCHANGED <<turn, peer>>

----------------------------------------------------------------------------
(* The model wrapper of the Agno actor: ScrAILLMModelWrapper               *)
(* (engine/actors/basic_runtime_agno_v1.py).  The dict complete_json       *)
(* returns is a function from its keys; the value under "action_name" is a *)
(* string, the value under "parameters" a tagged parameters value, every   *)
(* other value a tagged content.                                           *)

\* A Python str.
Str(s) == [tag |-> "str", s |-> s]

\* str(llm_output_dict): the printed form of a dict, a non-empty str.
StrOfDict(d) == [tag |-> "str_of_dict", d |-> d]

\* json.dumps({"error": f"{prefix}{str(e)}"})
ErrorJson(prefix, e) == [tag |-> "error_json", prefix |-> prefix, reason |-> e]

\* json.dumps(value): a str that holds the encoded value.
JsonDumps(value) == [tag |-> "json", value |-> value]

\* json.loads(text): the decoded value, or JSONDecodeError.
JsonLoads(text) ==
    IF text.tag = "json"
    THEN [exc |-> "", value |-> text.value]
    ELSE [exc |-> "JSONDecodeError", value |-> NoneValue]

\* isinstance(content, str) and content: a str that is not empty.
NonEmptyStr(content) ==
    \/ content.tag \in {"str_of_dict", "error_json", "outcome_message"}
    \/ content.tag = "str" /\ content.s # ""

AgnoMessage(content, tool_calls) ==
    [role |-> "assistant", content |-> content, tool_calls |-> tool_calls]

\* One entry of tool_calls_payload (the id is a fresh uuid, left out).
ToolCallPayload(tool_name, arguments) ==
    [type |-> "function", function |-> [name |-> tool_name, arguments |-> arguments]]

\* ScrAILLMModelWrapper.parse_provider_response(llm_output_dict)
parse_provider_response(llm_output_dict) ==
    IF "action_name" \in DOMAIN llm_output_dict
    THEN AgnoMessage(NoneContent,
             <<ToolCallPayload(llm_output_dict["action_name"],
                   JsonDumps(DictGet(llm_output_dict, "parameters",
                                     DictParams(EmptyDict))))>>)
    ELSE IF "response_text" \in DOMAIN llm_output_dict
    THEN AgnoMessage(llm_output_dict["response_text"], <<>>)
    ELSE AgnoMessage(StrOfDict(llm_output_dict), <<>>)

\* What llm_provider.complete_json did: returned a dict, or raised.
BackendReturns(llm_output_dict) == [tag |-> "return", d |-> llm_output_dict, exc |-> ""]
BackendRaises(exc) == [tag |-> "raise", d |-> EmptyDict, exc |-> exc]

\* ScrAILLMModelWrapper.invoke(messages), given what complete_json does
\* in its one call.
invoke(backend) ==
    IF backend.tag = "raise"
    THEN AgnoMessage(ErrorJson("LLM invocation failed: ", backend.exc), <<>>)
    ELSE parse_provider_response(backend.d)

----------------------------------------------------------------------------
(* The adapters of the decision backend: complete_json of OpenRouterLLM    *)
(* and of LocalLMStudio (engine/llm_services/llm_provider.py).  The HTTP   *)
(* service is outside the program: what requests.post does is an input.    *)

\* requests.post raised a RequestException.
NetworkFailure == [kind |-> "network_error"]

\* requests.post returned a response with a status that is not 200.
ErrorResponse(status_code, error_message) ==
    [kind |-> "response", status_code |-> status_code, error_message |-> error_message]

\* requests.post returned a 200 response whose message content is: a JSON
\* object ("json"), text around a JSON object ("embedded"), text with
\* braces around something that is no JSON ("bad_embedded"), or text with
\* no braces that is no JSON ("no_json").
Completion(form, d) ==
    [kind |-> "response", status_code |-> 200, form |-> form, d |-> d]

\* OpenRouterLLM.complete_json, given what requests.post did.
OpenRouterLLM_complete_json(reply) ==
    IF reply.kind = "network_error"
    THEN BackendRaises("ValueError")
    ELSE IF reply.status_code # 200
    THEN BackendReturns([type |-> Str("wait"),
                         reason |-> <<"API Error: ", reply.error_message, "...">>])
    ELSE IF reply.form \in {"json", "embedded"}
    THEN BackendReturns(reply.d)
    ELSE BackendRaises("ValueError")

\* LocalLMStudio.complete_json, given what requests.post did;
\* response.raise_for_status() raises an HTTPError, a RequestException,
\* on a 4xx or 5xx status.
LocalLMStudio_complete_json(reply) ==
    IF reply.kind = "network_error" \/ reply.status_code # 200
    THEN BackendRaises("ConnectionError")
    ELSE IF reply.form \in {"json", "embedded"}
    THEN BackendReturns(reply.d)
    ELSE BackendReturns([error |-> Str("Failed to parse JSON from completion"),
                         completion_text |-> Str(reply.form)])

\* llm_provider.complete_json(...) of the provider the wrapper holds.
complete_json(provider, reply) ==
    IF provider = "OpenRouterLLM"
    THEN OpenRouterLLM_complete_json(reply)
    ELSE LocalLMStudio_complete_json(reply)

\* One call of complete_json, and the message ScrAILLMModelWrapper.invoke
\* makes of what it did.
CompleteJson(provider, reply) ==
    /\ last' = [op |-> "complete_json", provider |-> provider, reply |-> reply,
                result |-> complete_json(provider, reply),
                message |-> invoke(complete_json(provider, reply))]
    /\ steps' = steps + 1
    /\ UNCHANGED <<state, emotions, short_term_memory, action_handlers, tools,
                   runtime_state, message_history, perceptions, turn, peer>>

----------------------------------------------------------------------------
(* The prompt: ScrAILLMModelWrapper._generate_prompt_for_llm.  The prompt  *)
(* is an f-string; the model keeps its variable parts, the fixed text      *)
(* between them being the same in every prompt.                            *)

\* The description and the goals of the actor: fields of ActorData that no
\* step of a turn writes.
ActorDescription == "Experiencing a vision, integrated with Agno."
ActorGoals == <<"Understand the vision via Agno framework.">>

\* The user message the agent makes of the perception it is run with.
UserMessage(text) == [role |-> "user", content |-> Str(text), tool_calls |-> <<>>]

\* The message that holds what a tool returned.
ToolMessage(name, content) ==
    [role |-> "tool", name |-> name, content |-> content, tool_calls |-> <<>>]

\* The entries one message adds to recent_messages_str_list.  The contents
\* of the model carry no surrounding white space, so strip() changes none.
RenderMessage(m) ==
    IF m.tool_calls # <<>>
    THEN [i \in 1..Len(m.tool_calls) |->
             <<m.role, " called tool ", m.tool_calls[i].function.name,
               " with args ", m.tool_calls[i].function.arguments>>]
    ELSE IF m.role = "tool" /\ NonEmptyStr(m.content)
    THEN << <<"tool ", m.name, " responded: ", m.content>> >>
    ELSE IF NonEmptyStr(m.content)
    THEN << <<m.role, ": ", m.content>> >>
    ELSE <<>>

\* recent_messages_str_list after the loop over the messages.
RECURSIVE RenderMessages(_)
RenderMessages(messages) ==
    IF messages = <<>> THEN <<>>
    ELSE RenderMessage(Head(messages)) \o RenderMessages(Tail(messages))

\* _generate_prompt_for_llm(messages), with actor_data what
\* actor_data_provider() returns.  goals keeps the list that "; " joins,
\* memory the list that "; " joins, emotions the items that ", " joins (in
\* the order of the dict, which a dict that is not written keeps).
_generate_prompt_for_llm(messages, actor_data) ==
    [name |-> actor_data.name,
     description |-> ActorDescription,
     role_state |-> DictGet(actor_data.state, "actor_state",
                            DictGet(actor_data.state, "status", "neutral")),
     goals |-> ActorGoals,
     memory |-> RenderMessages(LastN(messages, 5)),
     emotions |-> actor_data.emotions]

----------------------------------------------------------------------------
(* A turn of the Agno actor: ScrAIActor.run_cycle                          *)
(* (engine/actors/basic_runtime_agno_v1.py).  Agent.run is the Agno        *)
(* library's: it calls the model wrapper, runs the tool the model's        *)
(* message asks for, and then either calls the model again or returns.     *)

\* The message a tool returned, as a str.
OutcomeMessage(message) == [tag |-> "outcome_message", parts |-> message]

\* str(content)
PyStr(content) == IF content.tag = "none" THEN Str("None") ELSE content

\* What run_cycle makes of a tool call of the response.
ChosenActionDetails(tool_call_data, parameters, tool_output) ==
    [action_name |-> tool_call_data.function.name,
     parameters |-> parameters,
     tool_output |-> tool_output]

\* The lines of run_cycle after super().run(...) returned response_from_agno.
run_cycle(response_from_agno) ==
    LET content == response_from_agno.content IN
    IF response_from_agno.tool_calls # <<>>
    THEN LET tool_call_data == response_from_agno.tool_calls[1]
             loaded == JsonLoads(tool_call_data.function.arguments)
         IN  IF loaded.exc # ""
             THEN [exc |-> loaded.exc, result |-> NoResult]
             ELSE [exc |-> "",
                   result |-> [details |-> ChosenActionDetails(tool_call_data,
                                               loaded.value, content),
                               message |-> PyStr(content)]]
    ELSE IF NonEmptyStr(content)
    THEN [exc |-> "", result |-> [details |-> NoneValue, message |-> content]]
    ELSE IF content.tag # "none"
    THEN [exc |-> "", result |-> [details |-> NoneValue, message |-> PyStr(content)]]
    ELSE [exc |-> "", result |-> NoResult]

\* run_cycle(perception_input) is called: the perception goes to Agent.run.
\* The callers call it again only after it has returned.
RunCycle(perception_input) ==
    /\ CallerReady(turn)
    /\ turn' = [NoTurn EXCEPT !.pc = "deciding",
                              !.in_flight = turn.in_flight + 1,
                              !.runs = turn.runs + 1,
                              !.perception = perception_input,
                              !.pre = Snapshot,
                              !.phases = <<"perceive">>,
                              !.messages = <<UserMessage(perception_input)>>,
                              !.prompts = turn.prompts]
    /\ UNCHANGED <<state, emotions, short_term_memory, action_handlers, tools,
                   runtime_state, message_history, perceptions, last, steps, peer>>

\* The agent calls the model: ScrAILLMModelWrapper.invoke, which builds
\* the prompt from the messages of the run and calls complete_json once.
\* The agent adds the model's message to the messages of the run.
ModelInvoke(backend) ==
    LET message == invoke(backend)
        prompt_str == _generate_prompt_for_llm(turn.messages, Actor)
    IN
    /\ turn.pc = "deciding"
    /\ turn' = [turn EXCEPT
                   !.prompts = <<[text |-> prompt_str, of |-> Actor]>>,
                   !.messages = Append(@, message),
                   !.backend_calls = @ + 1,
                   !.backend_failed = @ \/ backend.tag = "raise",
                   !.malformed = @ \/ ( /\ backend.tag = "return"
                                        /\ "action_name" \notin DOMAIN backend.d
                                        /\ "response_text" \notin DOMAIN backend.d ),
                   !.content = message.content,
                   !.tool_calls = @ \o message.tool_calls,
                   !.phases = Append(@, "decide"),
                   !.pc = IF message.tool_calls # <<>> THEN "tool" ELSE "responding"]
    /\ UNCHANGED <<state, emotions, short_term_memory, action_handlers, tools,
                   runtime_state, message_history, perceptions, last, steps, peer>>

\* ScrAILLMModelWrapper.ainvoke(messages): it awaits invoke in an executor.
\* awaited is what the await did: "completed" with invoke's message, or
\* "cancelled" by the caller of the turn, which raises
\* asyncio.CancelledError at the await.  `except Exception` catches that
\* error where it is an Exception (before Python 3.8) and not where it is a
\* BaseException (from 3.8 on): caught says which.
ainvoke(backend, awaited, caught) ==
    IF awaited = "completed"
    THEN [exc |-> "", message |-> invoke(backend)]
    ELSE IF caught
    THEN [exc |-> "",
          message |-> AgnoMessage(ErrorJson("Async LLM invocation failed: ", ""), <<>>)]
    ELSE [exc |-> "CancelledError", message |-> AgnoMessage(NoneContent, <<>>)]

\* The agent of an asynchronous run awaits the model: ainvoke.  An error
\* raised out of ainvoke ends the run with that error.
ModelAinvoke(backend, awaited, caught) ==
    LET r == ainvoke(backend, awaited, caught) IN
    IF awaited = "completed"
    THEN ModelInvoke(backend)
    ELSE /\ turn.pc = "deciding"
         /\ turn' = [turn EXCEPT
                        !.cancelled = TRUE,
                        !.backend_calls = @ + 1,
                        !.content = r.message.content,
                        !.messages = IF r.exc = "" THEN Append(@, r.message) ELSE @,
                        !.phases = Append(@, "decide"),
                        !.exc = r.exc,
                        !.in_flight = IF r.exc = "" THEN @ ELSE @ - 1,
                        !.pc = IF r.exc = "" THEN "responding" ELSE "done"]
         /\ UNCHANGED <<state, emotions, short_term_memory, action_handlers, tools,
                        runtime_state, message_history, perceptions, last, steps, peer>>

\* The agent runs the tool the model's message asked for, then hands its
\* output back to the model (again) or ends the run.
AgentToolCall(again) ==
    LET tool_call_data == turn.tool_calls[Len(turn.tool_calls)]
        parameters == JsonLoads(tool_call_data.function.arguments).value
    IN  /\ turn.pc = "tool"
        /\ again => turn.backend_calls < MaxInvocations
        /\ ToolCall(tool_call_data.function.name, parameters)
        /\ turn' = [turn EXCEPT
                       !.executions = @ + 1,
                       !.content = OutcomeMessage(last'.outcome.message),
                       !.messages = Append(@, ToolMessage(tool_call_data.function.name,
                                        OutcomeMessage(last'.outcome.message))),
                       !.phases = @ \o (IF DOMAIN last'.outcome.state_changes # {}
                                        THEN <<"execute", "apply">>
                                        ELSE <<"execute">>),
                       !.pc = IF again THEN "deciding" ELSE "responding"]
        /\ UNCHANGED peer

\* Agent.run returns response_from_agno and run_cycle returns its pair.
RunCycleReturn(response_from_agno) ==
    LET r == run_cycle(response_from_agno) IN
    /\ turn.pc = "responding"
    /\ turn' = [turn EXCEPT !.pc = "done", !.result = r.result, !.exc = r.exc,
                            !.in_flight = @ - 1]
    /\ UNCHANGED <<state, emotions, short_term_memory, action_handlers, tools,
                   runtime_state, message_history, perceptions, last, steps, peer>>

----------------------------------------------------------------------------
(* A turn of the runtime actor: ScrAIActorAgno.run_cycle                   *)
(* (engine/actors/basic_runtime.py): perceive, decide, act.                *)

\* The lines of decide after agno_agent.run returned response.
decide(response) ==
    CASE response.kind = "messages" /\ response.tool_calls # <<>> ->
            [action_type |-> "tool_call", content |-> response.content]
      [] response.kind \in {"messages", "content"} ->
            [action_type |-> "message", content |-> response.content]
      [] OTHER ->
            [action_type |-> "error", content |-> Str("Unexpected response format")]

\* self.message_history.extend(response_messages), when the response has
\* messages (here one, the agent's latest).
ExtendHistory(history, outcome) ==
    IF outcome.tag = "return" /\ outcome.d.kind = "messages"
    THEN Append(history, [role |-> "assistant", content |-> outcome.d.content])
    ELSE history

\* ScrAIActorAgno.act(action)
act(action) ==
    [status |-> "success",
     action_performed |-> action,
     actor_reply |-> IF action.action_type = "message" THEN action.content
                     ELSE NoneContent]

\* run_cycle(observation) is called and perceives.
CyclePerceive(observation) ==
    /\ CallerReady(turn)
    /\ PerceiveCall(observation)
    /\ turn' = [NoTurn EXCEPT !.pc = "perceived",
                              !.in_flight = turn.in_flight + 1,
                              !.runs = turn.runs + 1,
                              !.perception = observation,
                              !.pre = Snapshot,
                              !.phases = <<"perceive">>]
    /\ UNCHANGED peer

\* decide: self.agno_agent.run(messages=self.message_history) returns a
\* response, raises TypeError, or raises another exception.
AgentRun(outcome) ==
    /\ turn.pc = "perceived"
    /\ turn' = [turn EXCEPT
                   !.backend_calls = @ + 1,
                   !.backend_failed = outcome.tag = "raise",
                   !.phases = Append(@, "decide"),
                   !.pc = IF outcome.tag = "raise" /\ outcome.exc = "TypeError"
                          THEN "retrying" ELSE "decided",
                   !.result =
                       IF outcome.tag = "raise"
                       THEN [action_type |-> "error",
                             content |-> ErrorJson("Error running LLM: ", outcome.exc)]
                       ELSE decide(outcome.d)]
    /\ message_history' = ExtendHistory(message_history, outcome)
    /\ UNCHANGED <<state, emotions, short_term_memory, action_handlers, tools,
                   runtime_state, perceptions, last, steps, peer>>

\* decide, in the TypeError handler: self.agno_agent.run() is called a second
\* time; what it raises there is raised out of decide and run_cycle.
AgentRunAgain(outcome) ==
    /\ turn.pc = "retrying"
    /\ turn' = [turn EXCEPT
                   !.backend_calls = @ + 1,
                   !.pc = IF outcome.tag = "raise" THEN "done" ELSE "decided",
                   !.in_flight = IF outcome.tag = "raise" THEN @ - 1 ELSE @,
                   !.exc = outcome.exc,
                   !.result = IF outcome.tag = "raise" THEN NoResult
                              ELSE decide(outcome.d)]
    /\ message_history' = ExtendHistory(message_history, outcome)
    /\ UNCHANGED <<state, emotions, short_term_memory, action_handlers, tools,
                   runtime_state, perceptions, last, steps, peer>>

\* act(decision), and run_cycle returns its result.
CycleAct ==
    /\ turn.pc = "decided"
    /\ turn' = [turn EXCEPT !.pc = "done",
                            !.in_flight = @ - 1,
                            !.phases = Append(@, "act"),
                            !.result = act(turn.result)]
    /\ UNCHANGED <<state, emotions, short_term_memory, action_handlers, tools,
                   runtime_state, message_history, perceptions, last, steps, peer>>

----------------------------------------------------------------------------
(* The multi-turn driver: run_prototype (tests/protopope/protopope.py),    *)
(* a loop of perceive, decide and act on one ScrAIActorAgno.               *)

num_turns == 3

\* "error" in chosen_action.get("action_name", "").lower(): the names with
\* "error" in them that a decision may carry are the two fallback names.
BreakOnError(chosen_action) ==
    /\ "action_name" \in DOMAIN chosen_action
    /\ chosen_action.action_name \in {"error_llm_unavailable", "error_invalid_response"}

\* The loop has ended before its last turn: decide raised, which ends
\* run_prototype, or the loop reached its break.
DriverStopped(t) ==
    /\ t.pc = "done"
    /\ \/ t.exc # ""
       \/ BreakOnError(t.result.action_performed)

\* current_perception_text of the next turn: the scenario's at first, then
\* one made of the reply of the turn before (the reply itself is left out
\* of the text here), or the one for a turn without a reply.
DriverPerception(t) ==
    IF t.runs = 0 THEN "a guttural voice"
    ELSE IF t.result.actor_reply.tag # "none" /\ t.result.actor_reply # Str("")
    THEN "You previously stated a reply. What is your reflection or next thought?"
    ELSE "The previous action yielded no specific reply to reflect upon. What do you do next?"

\* The loop goes into its next turn and perceives.
DriverTurn ==
    /\ turn.runs < num_turns
    /\ ~DriverStopped(turn)
    /\ CyclePerceive(DriverPerception(turn))

----------------------------------------------------------------------------
(* Two actors on one ActionManager.  Actor "A" is the actor of the         *)
(* variables state, emotions and short_term_memory; actor "B" is           *)
(* peer.data.  ScrAIActor.__init__ builds the tools of an actor with       *)
(* _create_agno_tool(action_name, self.action_manager, self.pydantic_data).*)

SecondActorName == "Cardinal Rampolla"

\* The ActorData of an actor.
DataOf(who) == IF who = "A" THEN Snapshot ELSE peer.data

NameOf(who) == IF who = "A" THEN ActorName ELSE SecondActorName

\* agno_action_tool(parameters) as a function of the ActorData the tool
\* closes over: that ActorData after the call.
agno_action_tool(action_name, parameters, name, data, handlers) ==
    LET action_dict == Request(StrName(action_name), OrEmptyDict(parameters))
        r == execute_action(action_dict,
                            ActorData(name, data.state, data.emotions,
                                      data.short_term_memory),
                            handlers)
        applies == r.exc = "" /\ DOMAIN r.outcome.state_changes # {}
    IN  [state |-> IF applies
                   THEN ApplyStateChanges(data.state, r.outcome.state_changes)
                   ELSE data.state,
         emotions |-> IF applies
                      THEN AppliedEmotions(data.emotions, r.outcome.state_changes)
                      ELSE data.emotions,
         short_term_memory |-> r.short_term_memory]

\* The actor a tool writes to, had every tool closed over the actor the
\* ActionManager was first used with.
actor_pydantic_data_ref_first(owner) == "A"

\* The actor_pydantic_data_ref of the tools built for owner: the
\* self.pydantic_data of owner, bound when _create_agno_tool was called.
actor_pydantic_data_ref(owner) == owner

\* A tool of owner is called during a turn of owner.
ActorToolCall(owner, action_name, parameters) ==
    LET target == actor_pydantic_data_ref(owner)
        after == agno_action_tool(action_name, parameters, NameOf(target),
                                  DataOf(target), action_handlers)
        solo == agno_action_tool(action_name, parameters, NameOf(owner),
                                 peer.alone[owner], action_handlers)
        newpeer == [peer EXCEPT !.alone[owner] = solo, !.by = owner, !.calls = @ + 1]
    IN  /\ action_name \in tools
        /\ IF target = "A"
           THEN /\ state' = after.state
                /\ emotions' = after.emotions
                /\ short_term_memory' = after.short_term_memory
                /\ peer' = newpeer
           ELSE /\ peer' = [newpeer EXCEPT !.data = after]
                /\ UNCHANGED <<state, emotions, short_term_memory>>
        /\ UNCHANGED <<action_handlers, tools, runtime_state, message_history,
                       perceptions, last, steps, turn>>

----------------------------------------------------------------------------
(* Inputs *)

\* The parameter dicts tried with an action: none, the ones its handler or
\* its validation rule reads, and one it does not read.
ParameterChoices(action_name) ==
    CASE action_name \in LocationActions ->
             {EmptyDict, [location |-> "sacristy"], [target |-> "altar"]}
      [] action_name \in MessageActions ->
             {EmptyDict, [message |-> "Deliver us"], [tone |-> "solemn"],
              [message |-> "Deliver us", tone |-> "solemn"]}
      [] action_name \in TargetActions ->
             {EmptyDict, [target |-> "altar"], [item |-> "rosary"]}
      [] action_name = "pray" ->
             {EmptyDict, [intensity |-> "low"], [intensity |-> "medium"],
              [intensity |-> "high"], [intensity |-> "fervent"],
              [intensity |-> "high", duration |-> "long"]}
      [] action_name \in ShowEmotionActions ->
             {EmptyDict, [intensity |-> "low"], [original_action |-> action_name],
              [original_action |-> action_name, intensity |-> "high"]}
      [] action_name = "record_vision" ->
             {EmptyDict, [detail |-> "divine light"], [detail |-> "a dark voice"]}
      [] action_name = "observe_surroundings" -> {EmptyDict, [focus |-> "altar"]}
      [] action_name = "compose_prayer" -> {EmptyDict, [topic |-> "protection"]}
      [] action_name = "wait" -> {EmptyDict, [duration |-> "hour", reason |-> "in silence"]}
      [] OTHER -> {EmptyDict}

\* Action names as a caller may spell them: the registered ones, some in
\* another letter case, and some that no default action has.
RequestNames ==
    DefaultActions \cup {"PRAY", "Pray", "Speak", "Show_Emotion_Joy",
                         "fly", "Fly", "dance", ""}

\* Parameters that are no dict.
MalformedParameters ==
    {NoneParams, MissingParams, ListParams({"message"}), ListParams({})}

Requests ==
    {Request(StrName(n), DictParams(d)) :
        <<n, d>> \in UNION {{n} \X ParameterChoices(Lower(n)) : n \in RequestNames}}
    \cup {Request(StrName(n), p) :
            n \in {"pray", "speak", "listen_carefully", "wait", "stand", "fly"},
            p \in MalformedParameters}
    \cup {Request(NoneName, DictParams(EmptyDict)),
          Request(MissingName, DictParams(EmptyDict))}

\* What the tool of an action is called with.
ToolParameters(action_name) ==
    {DictParams(d) : d \in ParameterChoices(action_name)}
    \cup (IF action_name \in {"pray", "speak", "listen_carefully", "wait"}
          THEN MalformedParameters ELSE {})

\* The requests of the long runs on the memory list.
MemoryRequests ==
    {Request(StrName("pray"), DictParams(EmptyDict)),
     Request(StrName("observe_surroundings"), DictParams(EmptyDict))}

Observations == {"a guttural voice", "a calm reply"}

\* Dicts complete_json may return: an action with parameters (the first two
\* are the mock client's), an action without the "parameters" key, an action
\* whose parameters fail validation, a text reply, an empty and a null text,
\* a dict with only "parameters", and the dict LocalLMStudio returns when it
\* cannot parse the completion.
BackendOutputs ==
    { [action_name |-> "pray",
       parameters |-> DictParams([intensity |-> "high", duration |-> "long"])],
      [action_name |-> "record_vision",
       parameters |-> DictParams([detail |-> "divine light"])],
      [action_name |-> "wait"],
      [action_name |-> "speak", parameters |-> DictParams(EmptyDict)],
      [response_text |-> Str("I ponder the meaning of these events deeply.")],
      [response_text |-> Str("")],
      [response_text |-> NoneContent],
      [parameters |-> DictParams([intensity |-> "high"])],
      [error |-> Str("Failed to parse JSON from completion"),
       completion_text |-> Str("I kneel")] }

\* What one call of complete_json may do.
Backends ==
    {BackendReturns(d) : d \in BackendOutputs}
    \cup {BackendRaises("ConnectionError"), BackendRaises("ValueError")}

\* What requests.post may do in a call of complete_json.
ProviderReplies ==
    {NetworkFailure}
    \cup {ErrorResponse(status_code, "Unknown error") : status_code \in {400, 429, 500}}
    \cup {Completion(form, d) : form \in {"json", "embedded"}, d \in BackendOutputs}
    \cup {Completion(form, EmptyDict) : form \in {"bad_embedded", "no_json"}}

\* What Agent.run may return at the end of the run: the content it ended
\* with, with or without the tool calls of the run.
AgnoResponses ==
    {[content |-> turn.content, tool_calls |-> tool_calls] :
        tool_calls \in {turn.tool_calls, <<>>}}

----------------------------------------------------------------------------
(* Specifications *)

\* The registry and the tools of one actor, on every request, for MaxSteps calls.
Next ==
    \/ \E action \in Requests : steps < MaxSteps /\ ExecuteAction(action)
    \/ \E action \in Requests : steps < MaxSteps /\ ValidateAction(action)
    \/ \E action_name \in DefaultActions :
          \E parameters \in ToolParameters(action_name) :
             steps < MaxSteps /\ AgnoActionTool(action_name, parameters)
    \/ \E action_name \in RegisterNames, handler \in CustomHandlers :
          steps < MaxSteps /\ RegisterAction(action_name, handler)

Spec == Init /\ [][Next]_vars

\* Long runs of actions that narrate themselves, with perceptions in between.
NextMemory ==
    \/ \E action \in MemoryRequests :
          Len(short_term_memory) < MaxMemory /\ ExecuteAction(action)
    \/ \E action \in MemoryRequests :
          /\ Len(short_term_memory) < MaxMemory
          /\ AgnoActionTool(action.action_name.s, action.parameters)
    \/ \E observation \in Observations :
          Len(perceptions) < MaxMemPerceptions /\ Perceive(observation)

SpecMemory == Init /\ [][NextMemory]_vars

\* Runs of perceptions only.
NextPerceive ==
    \E observation \in Observations :
        Len(perceptions) < MaxPerceptions /\ Perceive(observation)

SpecPerceive == Init /\ [][NextPerceive]_vars

\* What agno_agent.run may do: return a response with messages (the last
\* with or without tool calls), one with a content only, one of another
\* form; or raise.
AgentRunOutcomes ==
    {BackendReturns(d) : d \in
        {[kind |-> "messages", content |-> NoneContent,
          tool_calls |-> <<ToolCallPayload("pray", JsonDumps(DictParams(EmptyDict)))>>],
         [kind |-> "messages", content |-> Str("I shall pray."), tool_calls |-> <<>>],
         [kind |-> "content", content |-> Str("I shall pray."), tool_calls |-> <<>>],
         [kind |-> "other", content |-> NoneContent, tool_calls |-> <<>>]}}
    \cup {BackendRaises("TypeError"), BackendRaises("ConnectionError")}

\* The tools the two actors call.
ActorTools == {"pray", "record_vision", "speak", "wait"}

\* Tool calls of two actors on one ActionManager, in any order.
NextActors ==
    \E owner \in {"A", "B"}, action_name \in ActorTools :
        \E parameters \in ToolParameters(action_name) :
            peer.calls < MaxActorCalls /\ ActorToolCall(owner, action_name, parameters)

SpecActors == Init /\ [][NextActors]_vars

\* Turns of the runtime actor, one after the other.
NextCycle ==
    \/ \E observation \in Observations :
          turn.runs < MaxTurns /\ CyclePerceive(observation)
    \/ \E outcome \in AgentRunOutcomes : AgentRun(outcome)
    \/ \E outcome \in AgentRunOutcomes : AgentRunAgain(outcome)
    \/ CycleAct

SpecCycle == Init /\ [][NextCycle]_vars

\* Turns of the Agno actor, one after the other.
NextTurn ==
    \/ \E perception_input \in Observations :
          turn.runs < MaxTurns /\ RunCycle(perception_input)
    \/ \E backend \in Backends : ModelInvoke(backend)
    \/ \E again \in BOOLEAN : AgentToolCall(again)
    \/ \E response_from_agno \in AgnoResponses : RunCycleReturn(response_from_agno)

SpecTurn == Init /\ [][NextTurn]_vars

\* Asynchronous turns of the Agno actor, which the caller may cancel while
\* the model is awaited.
NextAsync ==
    \/ \E perception_input \in Observations :
          turn.runs < MaxTurns /\ RunCycle(perception_input)
    \/ \E backend \in Backends, awaited \in {"completed", "cancelled"}, caught \in BOOLEAN :
          ModelAinvoke(backend, awaited, caught)
    \/ \E again \in BOOLEAN : AgentToolCall(again)
    \/ \E response_from_agno \in AgnoResponses : RunCycleReturn(response_from_agno)

SpecAsync == Init /\ [][NextAsync]_vars

\* The turns of run_prototype.
NextDriver ==
    \/ DriverTurn
    \/ \E outcome \in AgentRunOutcomes : AgentRun(outcome)
    \/ \E outcome \in AgentRunOutcomes : AgentRunAgain(outcome)
    \/ CycleAct

SpecDriver == Init /\ [][NextDriver]_vars

\* Calls of the backend adapters, on every reply of the service.
NextAdapter ==
    \E provider \in {"OpenRouterLLM", "LocalLMStudio"}, reply \in ProviderReplies :
        steps < MaxSteps /\ CompleteJson(provider, reply)

SpecAdapter == Init /\ [][NextAdapter]_vars

----------------------------------------------------------------------------
(* Properties.  `last` is the record of the call that led to the state, so  *)
(* a property of a call reads the call's inputs and result from `last` and  *)
(* the actor after the call from the variables.                             *)

ExecuteOps == {"execute_action", "agno_action_tool"}

\* The action name of the last request, as the registry looks it up.
LastName ==
    LET name == GetActionName(last.request)
    IN  IF name.tag = "str" THEN Lower(name.s) ELSE "<not a string>"

\* C1: after any sequence of perceptions and executed actions on one actor
\* (handlers that append their own narration included), the length of the
\* actor's short-term memory never exceeds the capacity of 10.
C1_MemoryWithinCapacity == Len(short_term_memory) <= Capacity

\* The observations a list of text entries holds, oldest first, as a list of
\* the same shape as `perceptions`.
ObservationsIn(history) == [i \in 1..Len(history) |-> history[i].content[2]]

\* C2: after each of N perceptions the memory buffer holds exactly the most
\* recent min(N, capacity) perceptions in arrival order.  The buffer is read
\* as whichever store of the actor holds perceptions: the message history
\* that perceive appends to, or the short-term memory list.
C2_BufferHoldsMostRecent ==
    last.op = "perceive" =>
        \/ ObservationsIn(message_history) = LastN(perceptions, Capacity)
        \/ short_term_memory = [i \in 1..Len(LastN(perceptions, Capacity)) |->
                                    <<LastN(perceptions, Capacity)[i]>>]

\* C3: for an action name that is not in the registry (looked up in lower
\* case), validate_action returns False and execute_action returns an
\* outcome whose result is INVALID.
C3_UnknownNameIsInvalid ==
    ( /\ last.op \in ExecuteOps \cup {"validate_action"}
      /\ GetActionName(last.request).tag = "str"
      /\ LastName \notin DOMAIN action_handlers )
    => /\ last.validated = "False"
       /\ last.exc = ""
       /\ last.op \in ExecuteOps => last.outcome.result = "INVALID"

C3_Witness ==
    /\ last.op = "execute_action"
    /\ last.request.action_name = StrName("dance")
    /\ last.validated = "False"
    /\ last.outcome.result = "INVALID"

\* C4: whenever execute_action returns an INVALID outcome, no handler was
\* invoked during the call and the actor's state map, emotions map and
\* short-term memory are what they were before the call.
C4_InvalidTouchesNothing ==
    (last.op \in ExecuteOps /\ last.outcome.result = "INVALID")
    => /\ last.invoked = "none"
       /\ state = last.pre.state
       /\ emotions = last.pre.emotions
       /\ short_term_memory = last.pre.short_term_memory

C4_Witness ==
    /\ last.op = "agno_action_tool"
    /\ LastName = "speak"
    /\ last.outcome.result = "INVALID"
    /\ Len(short_term_memory) > 0
    /\ DOMAIN state # {}

\* The parameter each of these actions is declared to require.
C5_RequiredKey(action_name) ==
    CASE action_name = "move_to" -> "location"
      [] action_name \in {"speak", "whisper", "shout"} -> "message"
      [] action_name \in {"examine", "use_item", "take", "give", "touch"} -> "target"
      [] OTHER -> "<none>"

\* C5: for every action with a declared required parameter, execute_action
\* on a request whose parameters are a mapping (or left out, which reads as
\* the empty mapping) returns INVALID when the key is absent and a
\* non-INVALID outcome when it is present.
C5_RequiredParameter ==
    ( /\ last.op \in ExecuteOps
      /\ C5_RequiredKey(LastName) # "<none>"
      /\ last.request.parameters.tag \in {"dict", "missing"} )
    => /\ last.exc = ""
       /\ last.outcome.result \in ActionResults
       /\ last.outcome.result = "INVALID"
            <=> C5_RequiredKey(LastName) \notin DOMAIN last.request.parameters.d

C5_Witness ==
    /\ last.op = "execute_action"
    /\ LastName = "shout"
    /\ last.request.parameters.tag = "dict"
    /\ "message" \in DOMAIN last.request.parameters.d
    /\ last.outcome.result = "SUCCESS"

\* C6: if the handler dispatched by execute_action raises an exception,
\* execute_action does not propagate it: it returns an outcome with result
\* FAILED whose message contains the exception's message.
C6_HandlerExceptionBecomesFailed ==
    (last.op \in ExecuteOps /\ last.handler_exc # "")
    => /\ last.exc = ""
       /\ last.outcome.result = "FAILED"
       /\ last.handler_exc \in Parts(last.outcome.message)

C6_Witness ==
    /\ last.op = "execute_action"
    /\ last.invoked = "custom_raise"
    /\ last.handler_exc = "custom failure"
    /\ last.outcome.result = "FAILED"

\* C7: execute_action never raises, whatever the request, malformed ones
\* included (action_name missing or not a string, parameters None or not a
\* mapping): it returns an outcome whose result is one of the four results.
C7_ExecuteNeverRaises ==
    last.op = "execute_action"
    => /\ last.exc = ""
       /\ last.outcome.result \in ActionResults

\* The emotion_changes entry of a state_changes map ({} when it has none).
EmotionChangesOf(state_changes) == DictGet(state_changes, "emotion_changes", EmptyDict)

\* C8: applying an outcome sets emotions[e] = v for every entry (e, v) of
\* state_changes["emotion_changes"] and state[k] = v for every other key k of
\* state_changes; every other key of both maps keeps its previous value, and
\* "emotion_changes" is never written as a key of the state map.
C8_ApplyOutcome ==
    (last.op = "agno_action_tool" /\ last.exc = "")
    => LET state_changes == last.outcome.state_changes
           emotion_changes == EmotionChangesOf(state_changes)
           keys == DOMAIN state_changes \ {"emotion_changes"}
       IN  /\ DOMAIN emotions = DOMAIN last.pre.emotions \cup DOMAIN emotion_changes
           /\ \A e \in DOMAIN emotion_changes : emotions[e] = emotion_changes[e]
           /\ \A e \in DOMAIN last.pre.emotions \ DOMAIN emotion_changes :
                 emotions[e] = last.pre.emotions[e]
           /\ DOMAIN state = DOMAIN last.pre.state \cup keys
           /\ \A k \in keys : state[k] = state_changes[k]
           /\ \A k \in DOMAIN last.pre.state \ keys : state[k] = last.pre.state[k]
           /\ "emotion_changes" \notin DOMAIN state

C8_Witness ==
    /\ last.op = "agno_action_tool"
    /\ last.invoked = "_handle_pray"
    /\ DOMAIN last.outcome.state_changes = {"spiritual_state", "emotion_changes"}
    /\ DictGet(last.pre.state, "spiritual_state", "") = "in_vision"
    /\ DictGet(state, "spiritual_state", "") = "praying_during_vision"
    /\ DictGet(state, "physical_condition", "") = "kneeling"
    /\ DictGet(emotions, "fear", 0) # DictGet(last.pre.emotions, "fear", 0)
    /\ DictGet(emotions, "awe", 0) = 80

EmotionHandlers == {"_handle_pray", "_handle_show_emotion"}

C10_Reduction(intensity) ==
    CASE intensity = "low" -> 10 [] intensity = "medium" -> 20 [] intensity = "high" -> 30

C10_Increase(intensity) ==
    CASE intensity = "low" -> 10 [] intensity = "medium" -> 15 [] intensity = "high" -> 20

\* C10: executing pray and applying its outcome changes fear to
\* max(0, fear - d) and determination to min(1, determination + i), with
\* (d, i) = (0.1, 0.1) for low, (0.2, 0.15) for medium and for no intensity,
\* (0.3, 0.2) for high; fear 0.6 and determination 0.5 with intensity high
\* become 0.3 and 0.7.  The parameters the action is executed with are a
\* mapping.
C10_PrayDeltas ==
    ( /\ last.op = "agno_action_tool"
      /\ LastName = "pray"
      /\ last.request.parameters.tag = "dict"
      /\ DictGet(last.request.parameters.d, "intensity", "medium")
             \in {"low", "medium", "high"} )
    => LET intensity == DictGet(last.request.parameters.d, "intensity", "medium")
           pre == last.pre.emotions
       IN  /\ last.outcome.result = "SUCCESS"
           /\ "fear" \in DOMAIN pre =>
                 emotions["fear"] = Max(0, pre["fear"] - C10_Reduction(intensity))
           /\ "determination" \in DOMAIN pre =>
                 emotions["determination"] =
                     Min(One, pre["determination"] + C10_Increase(intensity))
           /\ ( /\ intensity = "high"
                /\ DictGet(pre, "fear", 0) = 60
                /\ DictGet(pre, "determination", 0) = 50 )
              => (emotions["fear"] = 30 /\ emotions["determination"] = 70)

C10_Witness ==
    /\ last.op = "agno_action_tool"
    /\ LastName = "pray"
    /\ DictGet(last.request.parameters.d, "intensity", "") = "high"
    /\ DictGet(last.pre.emotions, "fear", 0) = 60
    /\ DictGet(last.pre.emotions, "determination", 0) = 50
    /\ DictGet(emotions, "fear", 0) = 30
    /\ DictGet(emotions, "determination", 0) = 70

\* The actions with no declared parameter requirement whose handler
\* declares no state change.
C11_Actions ==
    {"wait", "listen_carefully", "bless", "contemplate", "write", "search",
     "decide", "plan", "remember"}

\* C11: an action with no declared parameter requirement and no
\* handler-declared state change returns SUCCESS with an empty state_changes
\* mapping for any parameters mapping (listen_carefully, which reads none,
\* for parameters of any type), and executing and applying it leaves the
\* actor's state map and emotions map unchanged.
C11_NoChangeActionSucceeds ==
    ( /\ last.op \in ExecuteOps
      /\ LastName \in C11_Actions
      /\ \/ last.request.parameters.tag \in {"dict", "missing"}
         \/ LastName = "listen_carefully" )
    => /\ last.exc = ""
       /\ last.outcome.result = "SUCCESS"
       /\ last.outcome.state_changes = EmptyDict
       /\ state = last.pre.state
       /\ emotions = last.pre.emotions

\* C11 as stated, for parameters of any kind: it fails for wait, whose
\* handler reads its parameters with .get and so raises on a list or None.
C11_AnyParametersSucceed ==
    (last.op \in ExecuteOps /\ LastName \in C11_Actions)
    => /\ last.exc = ""
       /\ last.outcome.result = "SUCCESS"
       /\ last.outcome.state_changes = EmptyDict
       /\ state = last.pre.state
       /\ emotions = last.pre.emotions

\* wait called as a tool with parameters, by an actor that has state and
\* emotions to lose.
C11_Witness ==
    /\ last.op = "agno_action_tool"
    /\ LastName = "wait"
    /\ DOMAIN last.request.parameters.d = {"duration", "reason"}
    /\ last.outcome.result = "SUCCESS"
    /\ last.outcome.state_changes = EmptyDict
    /\ DOMAIN state # {}
    /\ DOMAIN emotions # {}
    /\ Len(short_term_memory) = Len(last.pre.short_term_memory) + 1

\* The names the specification gives the fallback decision.
FallbackNames == {"error_llm_unavailable", "error_invalid_response"}

\* The turn asked for a tool of one of the fallback names.
FallbackRequested ==
    \E i \in 1..Len(turn.tool_calls) :
        turn.tool_calls[i].function.name \in FallbackNames

\* C12: when the Decision Backend call raises during a turn, the decision of
\* the turn is a fallback Action Request named error_llm_unavailable or
\* error_invalid_response, and the turn goes on to validate and execute it.
C12_FailureYieldsFallbackRequest ==
    (turn.pc = "done" /\ turn.backend_failed)
    => FallbackRequested /\ turn.executions >= 1

\* C13: a backend response of neither accepted shape is replaced by the
\* fallback decision and is never passed on as a text reply.
C13_NonConformingIsFailure ==
    (turn.pc = "done" /\ turn.malformed)
    => /\ FallbackRequested
       /\ turn.result.message.tag # "str_of_dict"

\* C14: every perception handed to an actor yields exactly one Action
\* Outcome: when the turn has returned, one action was executed for it.
C14_OneOutcomePerPerception ==
    turn.pc = "done" => turn.executions = 1

\* C15: no exception escapes a turn, and the turn returns a message string
\* that is not None.
C15_TurnReturnsMessage ==
    turn.pc = "done" => turn.exc = "" /\ turn.result.message.tag # "none"

\* The message names an error condition.
ReferencesError(message) ==
    \/ message.tag = "error_json"
    \/ message.tag = "str_of_dict" /\ "error" \in DOMAIN message.d

\* C16: when the one backend call of a turn raises or returns malformed
\* output, the turn's result references an error condition, the state map
\* and the emotions are those before the turn, and the memory has at most
\* gained the entry of the perception.
C16_FailureLeavesStateAndReportsError ==
    ( /\ turn.pc = "done"
      /\ turn.backend_calls = 1
      /\ turn.backend_failed \/ turn.malformed )
    => /\ ReferencesError(turn.result.message)
       /\ state = turn.pre.state
       /\ emotions = turn.pre.emotions
       /\ short_term_memory \in
             {turn.pre.short_term_memory,
              Append(turn.pre.short_term_memory, turn.perception)}

\* The phases of seq occur in the order of `order`, each at most once.
RECURSIVE InOrder(_, _)
InOrder(seq, order) ==
    IF seq = <<>> THEN TRUE
    ELSE IF order = <<>> THEN FALSE
    ELSE IF Head(seq) = Head(order) THEN InOrder(Tail(seq), Tail(order))
    ELSE InOrder(seq, Tail(order))

\* C17: within a turn the phases occur in the order perceive, decide,
\* validate/execute, apply, each at most once, and a turn whose decision
\* failed goes on to validate/execute the fallback decision.
C17_PhasesInOrder ==
    /\ InOrder(turn.phases, <<"perceive", "decide", "execute", "apply">>)
    /\ (turn.pc = "done" /\ turn.backend_failed)
       => \E i \in 1..Len(turn.phases) : turn.phases[i] = "execute"

\* C18: there is no retry: the Decision Backend (agno_agent.run) is called
\* at most once in a turn.
C18_BackendCalledAtMostOnce ==
    turn.backend_calls <= 1

\* C19: for two actors that share one ActionManager, under every
\* interleaving of their tool calls, a call of one actor leaves the other
\* actor's state map, emotions and memory unchanged, and each actor's state
\* is the one it reaches when only its own calls are made.
C19_ActorsAreIsolated ==
    /\ [](Snapshot = peer.alone["A"] /\ peer.data = peer.alone["B"])
    /\ [][ /\ (peer'.by = "A" /\ peer'.calls # peer.calls)
              => peer'.data = peer.data
           /\ (peer'.by = "B" /\ peer'.calls # peer.calls)
              => /\ state' = state
                 /\ emotions' = emotions
                 /\ short_term_memory' = short_term_memory ]_vars

\* Both actors have called tools that changed their emotions and memory.
C19_Witness ==
    /\ peer.calls = 2
    /\ peer.by = "A"
    /\ emotions # peer.alone["B"].emotions
    /\ short_term_memory # <<>>
    /\ peer.data.short_term_memory # <<>>
    /\ peer.data.emotions # SecondActor.emotions

IsPrefix(a, b) == Len(a) <= Len(b) /\ SubSeq(b, 1, Len(a)) = a

\* C22: execute_action never modifies the actor's state map or emotions
\* map, whatever the request and the result; a handler writes the actor
\* only by appending to the short-term memory (and an INVALID request
\* appends nothing); the state map or the emotions change only in the step
\* that applies an outcome with declared state changes.
C22_ExecuteLeavesStateAndEmotions ==
    /\ [](last.op = "execute_action"
          => /\ state = last.pre.state
             /\ emotions = last.pre.emotions
             /\ IsPrefix(last.pre.short_term_memory, short_term_memory)
             /\ last.outcome.result = "INVALID"
                   => short_term_memory = last.pre.short_term_memory)
    /\ [][ (state' # state \/ emotions' # emotions)
           => /\ last'.op = "agno_action_tool"
              /\ DOMAIN last'.outcome.state_changes # {} ]_vars

\* A prayer executed directly: the outcome declares a fear the actor does
\* not have, and the memory has grown.
C22_Witness ==
    /\ last.op = "execute_action"
    /\ last.invoked = "_handle_pray"
    /\ last.outcome.result = "SUCCESS"
    /\ "fear" \in DOMAIN EmotionChangesOf(last.outcome.state_changes)
    /\ EmotionChangesOf(last.outcome.state_changes)["fear"] # emotions["fear"]
    /\ Len(short_term_memory) > Len(last.pre.short_term_memory)
    /\ Len(last.pre.short_term_memory) > 0

\* C23: action lookup is case-insensitive: a request whose name differs only
\* in letter case from a name in the registry is not rejected as unknown
\* (it is rejected only for a missing required parameter) and, when valid,
\* is dispatched to the handler registered under that name.
C23_LookupIsCaseInsensitive ==
    ( /\ last.op \in ExecuteOps
      /\ GetActionName(last.request).tag = "str"
      /\ last.request.parameters.tag \in {"dict", "missing"} )
    => \A k \in DOMAIN action_handlers :
          Lower(k) = LastName
          => /\ last.validated \in {"True", "False"}
             /\ last.validated = "False"
                   => /\ C5_RequiredKey(LastName) # "<none>"
                      /\ C5_RequiredKey(LastName) \notin DOMAIN last.request.parameters.d
             /\ last.validated = "True" => last.invoked = action_handlers[k]

\* C28: every emotion value of the actor lies in [0, 1] after any sequence
\* of executed and applied registry actions (the actors start with every
\* value in [0, 1]).
C28_EmotionsStayInUnitInterval ==
    \A e \in DOMAIN emotions : emotions[e] \in 0..One

\* Joy at 1.0 was shown again and applied, after an earlier call.
C28_Witness ==
    /\ steps = 2
    /\ last.op = "agno_action_tool"
    /\ last.invoked = "_handle_show_emotion"
    /\ "joy" \in DOMAIN last.pre.emotions
    /\ last.pre.emotions["joy"] = One
    /\ EmotionChangesOf(last.outcome.state_changes) = [joy |-> One]
    /\ emotions["joy"] = One

\* C29: executing show_emotion_X through execute_action with any parameters
\* mapping yields an outcome whose emotion_changes has exactly one key, X.
C29_ShowEmotionChangesItsEmotion ==
    ( /\ last.op = "execute_action"
      /\ LastName \in ShowEmotionActions
      /\ last.request.parameters.tag \in {"dict", "missing"} )
    => /\ last.outcome.result = "SUCCESS"
       /\ DOMAIN EmotionChangesOf(last.outcome.state_changes)
             = {EmotionType(LastName)}

\* state["vision_records"], [] when the key is absent.
VisionRecords(st) == DictGet(st, "vision_records", <<>>)

\* C30: each record_vision executed and applied through the tool leaves
\* state["vision_records"] equal to the records before it followed by its
\* detail; no other applied action changes the records; and execute_action
\* by itself leaves the state, the stored list included, as it was.
C30_VisionRecordsAccumulate ==
    [][ /\ (steps' # steps /\ last'.op = "agno_action_tool")
           => IF last'.invoked = "_handle_record_vision" /\ last'.handler_exc = ""
              THEN /\ "vision_records" \in DOMAIN state'
                   /\ state'["vision_records"] =
                         VisionRecords(state) \o
                         <<DictGet(last'.request.parameters.d, "detail",
                                   "general impression")>>
              ELSE /\ VisionRecords(state') = VisionRecords(state)
                   /\ "vision_records" \in DOMAIN state'
                         <=> "vision_records" \in DOMAIN state
        /\ (steps' # steps /\ last'.op = "execute_action") => state' = state ]_vars

\* Two visions recorded and applied, one after the other.
C30_Witness ==
    /\ steps = 2
    /\ last.op = "agno_action_tool"
    /\ last.invoked = "_handle_record_vision"
    /\ "vision_records" \in DOMAIN state
    /\ state["vision_records"] = <<"divine light", "a dark voice">>

\* The steps in which the model wrapper is invoked (and builds a prompt).
PromptStep == turn'.backend_calls = turn.backend_calls + 1

\* C24: prompt formulation is deterministic in the Actor State: a prompt
\* formulated on the same Actor State (name, description, state map, goals,
\* memory, emotions) as the prompt before it is identical to that prompt;
\* and formulating a prompt changes nothing in the Actor State.
C24_PromptDeterminedByActorState ==
    [][ PromptStep
        => /\ Actor' = Actor
           /\ (turn.prompts # <<>> /\ turn.prompts[1].of = Actor)
                 => turn'.prompts[1].text = turn.prompts[1].text ]_vars

\* a is b with some elements left out (the order kept).
RECURSIVE IsSubsequence(_, _)
IsSubsequence(a, b) ==
    IF a = <<>> THEN TRUE
    ELSE IF b = <<>> THEN FALSE
    ELSE IF Head(a) = Head(b) THEN IsSubsequence(Tail(a), Tail(b))
    ELSE IsSubsequence(a, Tail(b))

\* C25: the prompt built for a turn holds, in its memory section and in
\* buffer order, every entry that the actor's short-term memory held when
\* the prompt was built.
C25_PromptHoldsMemory ==
    \A i \in 1..Len(turn.prompts) :
        IsSubsequence(turn.prompts[i].of.short_term_memory,
                      turn.prompts[i].text.memory)

\* The replies that are failures of the backend: a network failure, a
\* status that is not a success, a completion with no parseable object.
AdapterFailure(reply) ==
    \/ reply.kind = "network_error"
    \/ reply.status_code # 200
    \/ reply.form \in {"bad_embedded", "no_json"}

\* C26: every failure of a backend adapter surfaces as a raised fault:
\* on a non-success status, a network failure or a reply with no parseable
\* embedded object, complete_json raises and returns no decision mapping.
C26_AdapterFailureRaises ==
    (last.op = "complete_json" /\ AdapterFailure(last.reply))
    => last.result.tag = "raise"

\* The turn has ended and its decision was an error decision.
ErrorDecision(t) ==
    /\ t.pc = "done"
    /\ t.exc = ""
    /\ t.result.action_performed.action_type = "error"

\* C27: the driver runs its turns one after the other, never more than
\* num_turns of them, and starts no turn after a turn whose decision was an
\* error or fallback decision.
C27_DriverStopsAfterError ==
    [][ /\ turn'.runs <= num_turns
        /\ turn'.runs # turn.runs
              => /\ turn'.runs = turn.runs + 1
                 /\ ~ErrorDecision(turn) ]_vars

\* C21: a turn cancelled by its caller while it is deciding behaves as on a
\* failure of the Decision Backend: the cancellation raises nothing out of
\* the turn, the turn's decision is the synthetic fallback decision, and
\* the cancellation leaves the Actor State as it was.
C21_CancellationIsBackendFailure ==
    [][ (turn'.cancelled /\ ~turn.cancelled)
        => /\ turn'.exc = ""
           /\ \E i \in 1..Len(turn'.tool_calls) :
                 turn'.tool_calls[i].function.name \in FallbackNames
           /\ Actor' = Actor ]_vars

====
